---- MODULE Spec2Model ----
(***************************************************************************)
(* A model of k3proc (src/proc.py): command(), command_ex() and the child  *)
(* process they drive.  One call of command() is followed from the         *)
(* normalisation of its arguments to the value or error handed back to     *)
(* the caller, interleaved with the steps of the child and of the clock.   *)
(***************************************************************************)
EXTENDS Integers, Sequences, FiniteSets, TLC

(* ------------------------------ bounds -------------------------------- *)

\* the clock stops ticking at MaxTime
MaxTime == 2
\* the child writes at most MaxWrite bytes over both of its output streams
MaxWrite == 2
\* os.waitpid() is interrupted at most MaxEintr times in one call
MaxEintr == 2
\* start_process() is called at most MaxLaunches times
MaxLaunches == 2
\* the stdout and stderr given to CalledProcessError() have at most MaxText
\* characters
MaxText == 2

(* --------------------------- python values ---------------------------- *)

\* Python's None and a value that is not None
None == <<>>
Some(v) == <<v>>
IsNone(o) == o = <<>>
Val(o) == o[1]

\* a str or bytes value
Str(d) == [kind |-> "str", data |-> d]
BytesVal(d) == [kind |-> "bytes", data |-> d]

\* the bytes a child can write: a letter, a line feed, and 0x89, which is
\* not valid at the start of a character in the default encoding
Byte == {"a", "\n", "x89"}
InvalidByte == "x89"

Streams == {"out", "err"}

(* ------------------------- the caller's inputs ------------------------ *)

os_environ == ("PATH" :> "/bin") @@ ("HOME" :> "/root")
EmptyMap == [k \in {} |-> ""]

EnvValues == {None, Some(EmptyMap), Some(("PATH" :> "/mine") @@ ("abc" :> "xyz"))}
CwdValues == {None, Some("/tmp")}
InputValues == {None, Some("123")}
TimeoutValues == {None, Some(1)}
TextValues == {None, Some(FALSE)}
UniversalNewlinesValues == {None}
EncodingValues == {None}
ErrorsValues == {None}
\* cmd is a str or a sequence of str
StrCmd(c) == [isStr |-> TRUE, seq |-> <<c>>]
SeqCmd(c) == [isStr |-> FALSE, seq |-> c]
CmdValues == {StrCmd("python"), SeqCmd(<<"ls", "a">>)}
ArgumentsValues == {<<"-c", "0">>}
ExitCodes == {0, 1}
SIGKILL == 9

TriBool == {None, Some(TRUE), Some(FALSE)}
InheritEnvValues == TriBool
CaptureValues == TriBool
TtyValues == TriBool

Requests ==
    [cmd : CmdValues, arguments : ArgumentsValues, cwd : CwdValues,
     encoding : EncodingValues, env : EnvValues, errors : ErrorsValues,
     text : TextValues, universal_newlines : UniversalNewlinesValues,
     input : InputValues, check : BOOLEAN, inherit_env : InheritEnvValues,
     timeout : TimeoutValues, capture : CaptureValues, tty : TtyValues]

\* the calls that differ in what steers the call: the I/O mode, the text
\* mode, the timeout and check, with nothing else supplied
ControlRequests ==
    {q \in Requests : /\ IsNone(q.cwd) /\ IsNone(q.env) /\ IsNone(q.input)
                      /\ IsNone(q.inherit_env) /\ q.cmd.isStr}

\* the calls that differ in what the call hands on to the child and to the
\* error: cmd, cwd, env, inherit_env, input, with pipes or ptys
DataRequests ==
    {q \in Requests : IsNone(q.timeout) /\ IsNone(q.text) /\ IsNone(q.capture)}

CallRequests == ControlRequests \cup DataRequests

\* command_ex(cmd, *arguments, **options): options["check"] = True
command_ex(q) == [q EXCEPT !.check = TRUE]

(* ---------------------- argument normalisation ------------------------ *)

defenc == "utf-8"

text_mode(q) ==
    /\ q.text \in {None, Some(TRUE)}
    /\ q.universal_newlines \in {None, Some(TRUE)}

encoding(q) ==
    IF text_mode(q) /\ IsNone(q.encoding) THEN Some(defenc) ELSE q.encoding

tty(q) == IF IsNone(q.tty) THEN FALSE ELSE Val(q.tty)

capture(q) ==
    IF tty(q) THEN TRUE
    ELSE IF IsNone(q.capture) THEN TRUE ELSE Val(q.capture)

inherit_env(q) == IF IsNone(q.inherit_env) THEN TRUE ELSE Val(q.inherit_env)

\* the overlay the wrong way round: the entries of a win
DictOverlayKeepFirst(a, b) == a @@ b

\* dict(a, **b): the entries of a overlaid with those of b
DictOverlay(a, b) == b @@ a

\* env or {}
EnvOrEmpty(e) == IF IsNone(e) \/ e = Some(EmptyMap) THEN EmptyMap ELSE Val(e)

merged_env(q) ==
    IF inherit_env(q)
    THEN Some(DictOverlay(os_environ, EnvOrEmpty(q.env)))
    ELSE q.env

\* the vector with the positional arguments appended to a sequence too
cmds_always_appended(q) == q.cmd.seq \o q.arguments

cmds(q) ==
    IF q.cmd.isStr THEN q.cmd.seq \o q.arguments ELSE q.cmd.seq

\* the wiring for the other precedence: capture=False wins over tty
ioopt_capture_first(q) ==
    IF q.capture = Some(FALSE) THEN "inherit"
    ELSE IF tty(q) THEN "pty" ELSE "pipe"

\* the I/O wiring of the child
ioopt(q) ==
    IF tty(q) THEN "pty"
    ELSE IF capture(q) THEN "pipe" ELSE "inherit"

\* the ptys with a pipe for stdin as well
PopenStdioWithStdinPipe(q) ==
    IF ioopt(q) = "pty"
    THEN ("stdin" :> "PIPE") @@ ("stdout" :> "out_slave_fd")
         @@ ("stderr" :> "err_slave_fd")
    ELSE IF ioopt(q) = "pipe"
         THEN [k \in {"stdin", "stdout", "stderr"} |-> "PIPE"]
         ELSE [k \in {} |-> "PIPE"]

\* the keyword arguments stdin, stdout, stderr given to Popen
PopenStdio(q) ==
    IF ioopt(q) = "pty"
    THEN ("stdout" :> "out_slave_fd") @@ ("stderr" :> "err_slave_fd")
    ELSE IF ioopt(q) = "pipe"
         THEN [k \in {"stdin", "stdout", "stderr"} |-> "PIPE"]
         ELSE [k \in {} |-> "PIPE"]

\* what Popen wires the child's three standard descriptors to: the one
\* given, and the caller's own where none is given
ChildStdio(kw) ==
    [k \in {"stdin", "stdout", "stderr"} |->
        IF k \in DOMAIN kw THEN kw[k] ELSE "inherited"]

PtyFds == {"out_master_fd", "out_slave_fd", "err_master_fd", "err_slave_fd"}
PipeFds == {"stdin_pipe", "stdout_pipe", "stderr_pipe"}

\* the environment the spawned process sees: Popen(env=None) hands the
\* child the environment of the calling process
PopenEnv(e) == IF IsNone(e) THEN os_environ ELSE Val(e)

(* --------------------------- pure helpers ----------------------------- *)

RECURSIVE Join(_)
\* b"".join(chunks)
Join(chunks) ==
    IF chunks = <<>> THEN <<>> ELSE Head(chunks) \o Join(Tail(chunks))

\* os.read(fd, 10240): at most ReadMax of the pending bytes
ReadMax == 10240
Min(a, b) == IF a < b THEN a ELSE b
OsRead(buf) == SubSeq(buf, 1, Min(Len(buf), ReadMax))
AfterRead(buf) == SubSeq(buf, Min(Len(buf), ReadMax) + 1, Len(buf))

\* what arrives on a pty master for a byte written to the slave: the
\* terminal's output processing turns a line feed into CR LF
TtyOutput(b) == IF b = "\n" THEN <<"\r", "\n">> ELSE <<b>>

\* a strict decoder fails on a byte that is not valid in the encoding
Decodable(bs) == \A i \in 1..Len(bs) : bs[i] # InvalidByte

RECURSIVE TranslateNewlines(_)
\* universal newlines on reading: CR LF and CR both become LF
TranslateNewlines(s) ==
    IF s = <<>> THEN <<>>
    ELSE IF Head(s) = "\r"
         THEN IF Len(s) >= 2 /\ s[2] = "\n"
              THEN <<"\n">> \o TranslateNewlines(Tail(Tail(s)))
              ELSE <<"\n">> \o TranslateNewlines(Tail(s))
         ELSE <<Head(s)>> \o TranslateNewlines(Tail(s))

\* io.TextIOWrapper(io.BytesIO(bs), encoding, errors).read()
Decode(bs) == Str(TranslateNewlines(bs))

RECURSIVE SplitFrom(_, _)
\* the lines of s, given the line cur collected so far
SplitFrom(s, cur) ==
    IF s = <<>> THEN (IF cur = <<>> THEN <<>> ELSE <<cur>>)
    ELSE IF Head(s) = "\r" /\ Len(s) >= 2 /\ s[2] = "\n"
         THEN <<cur>> \o SplitFrom(Tail(Tail(s)), <<>>)
    ELSE IF Head(s) \in {"\n", "\r"}
         THEN <<cur>> \o SplitFrom(Tail(s), <<>>)
    ELSE SplitFrom(Tail(s), Append(cur, Head(s)))

RECURSIVE SplitOn(_, _, _)
\* s.split(sep) for a separator of one character
SplitOn(s, sep, cur) ==
    IF s = <<>> THEN <<cur>>
    ELSE IF Head(s) = sep THEN <<cur>> \o SplitOn(Tail(s), sep, <<>>)
    ELSE SplitOn(Tail(s), sep, Append(cur, Head(s)))

\* the lines taken with split("\n")
splitlines_as_split(v) == SplitOn(v.data, "\n", <<>>)

\* str.splitlines() / bytes.splitlines()
splitlines(v) == SplitFrom(v.data, <<>>)

\* None turned into text instead of being replaced by ""
NoneToEmptyAsRepr(o) ==
    IF IsNone(o) THEN Str(<<"N", "o", "n", "e">>) ELSE Val(o)

\* if out is None: out = ""
NoneToEmpty(o) == IF IsNone(o) THEN Str(<<>>) ELSE Val(o)

\* the options without the input
optsWithoutInput(q) ==
    [k \in {x \in {"cwd", "env"} : ~IsNone(q[x])} |-> Val(q[k])]

\* the options reported by a CalledProcessError
opts(q) ==
    [k \in {x \in {"cwd", "env", "input"} : ~IsNone(q[x])} |-> Val(q[k])]

CalledProcessError(returncode, o, e, c, options) ==
    [returncode |-> returncode, stdout |-> o, stderr |-> e, cmd |-> c,
     options |-> options, out |-> splitlines(o), err |-> splitlines(e),
     args |-> <<returncode, o, e, c, options>>]

(* ------------------------------- state -------------------------------- *)

VARIABLES
    pc,          \* where the call of command() stands
    req,         \* the arguments of the call
    clock,       \* time.time()
    now,         \* the time the pty loop (or communicate) started at
    child,       \* "none", "running", "zombie" (exited, not waited for), "reaped"
    exitStatus,  \* the status the child ended with
    returncode,  \* subproc.returncode
    childEnv,    \* the environment the child was started with
    childArgv,   \* the argument vector the child was started with
    childStdin,  \* what the caller wrote to the child's stdin
    wrote,       \* the bytes the child has written to each stream
    pending,     \* the bytes written and not yet read by the caller
    out_chunks,  \* chunks read from out_master_fd
    err_chunks,  \* chunks read from err_master_fd
    out,         \* the caller's out
    err,         \* the caller's err
    result,      \* what the call handed back: a value or an error
    openFds,     \* the descriptors of this call open in the calling process
    killSent,    \* subproc.kill() has been called
    atExpiry,    \* the child's state when the timeout elapsed
    childStdio,  \* what the child's stdin, stdout and stderr are wired to
    \* start_process()
    lpc,         \* where the parent stands: "idle", "waitpid", "done"
    lreq,        \* the arguments of the call of start_process()
    platform,    \* which descriptor listings and limits the platform offers
    parentFds,   \* the descriptors open in the calling process
    closeLog,    \* what _close_fds() did in the child: the listings it
                 \* tried, where the numbers it closed came from, whether
                 \* a close failed
    kid,         \* the forked child: "none", "close_fds", "exec", "image",
                 \* "exited", "reaped"
    kidFds,      \* the descriptors open in the forked child
    kidArgv,     \* the argument vector of the image the child became
    kidEnv,      \* the environment of that image
    kidStatus,   \* the exit status of the child
    lresult,     \* what start_process() handed back in the parent
    interrupts,  \* how many times os.waitpid() failed with EINTR
    waitCalls,   \* how many times os.waitpid() was called
    logged,      \* the processes that called the logger
    file,        \* the file the target script appends to
    fileAtCall,  \* that file when start_process() was called
    launches,    \* the calls of start_process() made so far
    \* CalledProcessError()
    exIn,        \* the arguments of the constructor
    ex,          \* the constructed error
    \* shell_script()
    spc,         \* where the call stands: "idle", "entry", "called", "done"
    script_str,  \* the script given to shell_script()
    options,     \* the options given to shell_script()
    sresult,     \* what shell_script() handed back
    \* command() called from several threads
    calls,       \* the locals of each thread's call of command()
    procs,       \* the process table: the children by pid
    fdtab,       \* the descriptor table of the calling process: the child
                 \* whose output each descriptor reads, 0 when closed
    \* the mappings in the caller's memory
    fpc,         \* where the call stands: "idle", "call", "popen", "run",
                 \* "forked", "done"
    freq,        \* the function called and its inherit_env and env
    heap,        \* the mapping objects of the calling process by name:
                 \* "os.environ", "env" (the caller's argument), "fresh"
    merged_ref,  \* the object merged_env refers to, "None" for None
    fchild,      \* the forked or spawned child: its environment and, after
                 \* a fork, its own copy of the heap
    foutcome     \* how the call ended, and the object its error refers to

cmdVars == <<pc, req, clock, now, child, exitStatus, returncode, childEnv,
             childArgv, childStdin, wrote, pending, out_chunks, err_chunks,
             out, err, result, openFds, killSent, atExpiry, childStdio>>

launchVars == <<lpc, lreq, platform, parentFds, closeLog, kid, kidFds, kidArgv,
                kidEnv, kidStatus, lresult, interrupts, waitCalls, logged,
                file, fileAtCall, launches>>

errVars == <<exIn, ex>>

shellVars == <<spc, script_str, options, sresult>>

threadVars == <<calls, procs, fdtab>>

frameVars == <<fpc, freq, heap, merged_ref, fchild, foutcome>>

vars == <<cmdVars, launchVars, errVars, shellVars, threadVars, frameVars>>

\* what a step of command() leaves alone
otherVars == <<launchVars, errVars, shellVars, threadVars, frameVars>>

procVars == <<child, exitStatus, returncode>>
spawnVars == <<childEnv, childArgv, childStdio>>
ptyVars == <<out_chunks, err_chunks>>
ioVars == <<wrote, pending>>

NoResult == [kind |-> "none", value |-> None]

\* the state before the call, for a request drawn from R
InitFor(R) ==
    /\ pc = "call"
    /\ req \in R
    /\ clock = 0
    /\ now = 0
    /\ child = "none"
    /\ exitStatus = 0
    /\ returncode = None
    /\ childEnv = None
    /\ childArgv = None
    /\ childStdin = None
    /\ wrote = [s \in Streams |-> <<>>]
    /\ pending = [s \in Streams |-> <<>>]
    /\ out_chunks = <<>>
    /\ err_chunks = <<>>
    /\ out = None
    /\ err = None
    /\ result = NoResult
    /\ openFds = {}
    /\ killSent = FALSE
    /\ atExpiry = "none"
    /\ childStdio = None

(* --------------------- start_process(): the inputs -------------------- *)

LaunchRequests ==
    [cmd : {"python", "sh"}, target : {"write.py"},
     env : {EmptyMap, ("PATH" :> "/mine") @@ ("abc" :> "xyz")},
     args : {<<"foo">>, <<"foo", "bar">>}]

NoLaunch == [cmd |-> "sh", target |-> "write.py", env |-> EmptyMap,
             args |-> <<"foo">>]

\* the descriptors the calling process may have open
ParentFdSets == {{0, 1, 2}, {0, 1, 2, 3, 5}}

\* whether /proc/self/fd and /dev/fd can be listed and whether
\* os.sysconf("SC_OPEN_MAX") gives the limit
Platforms == [proc : BOOLEAN, dev : BOOLEAN, sysconf : BOOLEAN]

\* _close_fds() has not run
NoCloseLog == [tried |-> <<>>, from |-> "none", upto |-> 0, errors |-> FALSE]

NoLaunchResult == [kind |-> "none", from |-> "none", errno |-> "none"]

\* the state before the first call of start_process()
LaunchStart(fds, pf) ==
    /\ lpc = "idle"
    /\ lreq = NoLaunch
    /\ platform = pf
    /\ parentFds = fds
    /\ closeLog = NoCloseLog
    /\ kid = "none"
    /\ kidFds = {}
    /\ kidArgv = <<>>
    /\ kidEnv = EmptyMap
    /\ kidStatus = 0
    /\ lresult = NoLaunchResult
    /\ interrupts = 0
    /\ waitCalls = 0
    /\ logged = {}
    /\ file = <<>>
    /\ fileAtCall = <<>>
    /\ launches = 0

\* start_process() is not called
LaunchIdle ==
    LaunchStart({0, 1, 2}, [proc |-> TRUE, dev |-> TRUE, sysconf |-> TRUE])

(* ------------------ CalledProcessError(): the inputs ------------------ *)

TextChar == {"a", "\n", "\r"}
Texts == UNION {[1..n -> TextChar] : n \in 0..MaxText}

ErrInputs ==
    [returncode : {1, 222}, kind : {"str", "bytes"}, out : Texts,
     err : Texts, cmd : {<<"ls", "a", "b">>},
     options : {EmptyMap, "close_fds" :> TRUE}]

NoErrInput == [returncode |-> 1, kind |-> "str", out |-> <<>>, err |-> <<>>,
               cmd |-> <<"ls", "a", "b">>, options |-> EmptyMap]

\* no CalledProcessError is constructed apart from those of command()
ErrIdle == exIn = NoErrInput /\ ex = None

(* ---------------------- shell_script(): the inputs -------------------- *)

\* the keyword options of a call, without cmd and arguments
OptionsOf(q) ==
    [cwd |-> q.cwd, encoding |-> q.encoding, env |-> q.env,
     errors |-> q.errors, text |-> q.text,
     universal_newlines |-> q.universal_newlines, input |-> q.input,
     check |-> q.check, inherit_env |-> q.inherit_env,
     timeout |-> q.timeout, capture |-> q.capture, tty |-> q.tty]

\* the options shell_script() is called with: with and without an input of
\* the caller's own, in each mode of capture and tty
ShellOptions ==
    {OptionsOf(q) : q \in {r \in Requests : /\ r.cmd.isStr
                                            /\ IsNone(r.cwd)
                                            /\ IsNone(r.env)
                                            /\ IsNone(r.inherit_env)
                                            /\ IsNone(r.text)}}

Scripts == {"exit 1"}

NoOptions ==
    [cwd |-> None, encoding |-> None, env |-> None, errors |-> None,
     text |-> None, universal_newlines |-> None, input |-> None,
     check |-> FALSE, inherit_env |-> None, timeout |-> None,
     capture |-> None, tty |-> None]

\* shell_script() is not called
ShellIdle ==
    /\ spc = "idle"
    /\ script_str = ""
    /\ options = NoOptions
    /\ sresult = NoResult

(* ------------------- command() in threads: the inputs ----------------- *)

\* the threads that call command()
Threads == {"t1", "t2"}

\* the pids and the descriptor numbers the system hands out, lowest first
Pids == {11, 12}
FdNumbers == {3, 4}

\* how a thread calls command(): with ptys or pipes, with or without a
\* timeout
ThreadRequests == [tty : BOOLEAN, timed : BOOLEAN]

\* the locals of a call before it starts
CallLocals(q) ==
    [pc |-> "call", tty |-> q.tty, timed |-> q.timed, expired |-> FALSE,
     pid |-> 0, fd |-> 0, chunks |-> <<>>, returncode |-> None,
     result |-> NoResult]

NoProc ==
    [state |-> "free", status |-> 0, wrote |-> <<>>, buf |-> <<>>,
     readBy |-> {}, killedBy |-> {}, reapedBy |-> {}]

\* the state before the threads' calls, for requests drawn from R
ThreadsStart(R) ==
    /\ calls \in [Threads -> {CallLocals(q) : q \in R}]
    /\ procs = [p \in Pids |-> NoProc]
    /\ fdtab = [f \in FdNumbers |-> 0]

\* no thread calls command()
ThreadsIdle == ThreadsStart({[tty |-> FALSE, timed |-> FALSE]})

(* ------------------ the caller's mappings: the inputs ----------------- *)

\* what os.environ may hold when the call is made
Environs == {os_environ, ("abc" :> "old") @@ os_environ}

\* the calls: command() with each inherit_env and env, start_process()
\* with each env (a mapping, never None)
FrameRequests ==
    [fn : {"command"}, inherit_env : InheritEnvValues, env : EnvValues,
     environ : Environs]
    \cup [fn : {"start_process"}, inherit_env : {None},
          env : EnvValues \ {None}, environ : Environs]

NoFrameRequest ==
    [fn |-> "command", inherit_env |-> None, env |-> None,
     environ |-> os_environ]

NoChild == [state |-> "none", env |-> None, heap |-> None]

NoOutcome == [kind |-> "none", env_ref |-> "None"]

\* the caller's memory before the call: os.environ, the env argument when
\* it is a mapping, and no third mapping
FrameStart(q) ==
    /\ fpc = "call"
    /\ freq = q
    /\ heap = [o \in {"os.environ", "env", "fresh"} |->
                  IF o = "os.environ" THEN Some(q.environ)
                  ELSE IF o = "env" THEN q.env ELSE None]
    /\ merged_ref = "None"
    /\ fchild = NoChild
    /\ foutcome = NoOutcome

\* neither function is called
FrameIdle ==
    /\ fpc = "idle"
    /\ freq = NoFrameRequest
    /\ heap = [o \in {"os.environ", "env", "fresh"} |->
                  IF o = "os.environ" THEN Some(os_environ) ELSE None]
    /\ merged_ref = "None"
    /\ fchild = NoChild
    /\ foutcome = NoOutcome

Init == InitFor(CallRequests) /\ LaunchIdle /\ ErrIdle /\ ShellIdle /\ ThreadsIdle
        /\ FrameIdle


\* timeout is not None and time.time() - now > timeout
Expired(t) == ~IsNone(req.timeout) /\ t - now > Val(req.timeout)

(* ------------------------ the child and the clock --------------------- *)

\* the child writes one byte to its stdout or stderr
ChildWrite(s, b) ==
    /\ child = "running"
    /\ Len(wrote.out) + Len(wrote.err) < MaxWrite
    /\ wrote' = [wrote EXCEPT ![s] = Append(@, b)]
    /\ pending' = [pending EXCEPT ![s] =
                      IF ioopt(req) = "pty" THEN @ \o TtyOutput(b)
                      ELSE IF ioopt(req) = "pipe" THEN Append(@, b)
                      ELSE @]
    /\ UNCHANGED <<otherVars, pc, req, clock, now, procVars, spawnVars, childStdin,
                   ptyVars, out, err, result, openFds, killSent, atExpiry>>

\* the child exits by itself
ChildExit(c) ==
    /\ child = "running"
    /\ child' = "zombie"
    /\ exitStatus' = c
    /\ UNCHANGED <<otherVars, pc, req, clock, now, returncode, spawnVars, childStdin,
                   ioVars, ptyVars, out, err, result, openFds, killSent,
                   atExpiry>>

\* the clock, as far as the call reads it: while it waits with a timeout
Tick ==
    /\ pc \notin {"call", "done"}
    /\ ~IsNone(req.timeout)
    /\ clock < MaxTime
    /\ clock' = clock + 1
    /\ atExpiry' = IF ~Expired(clock) /\ Expired(clock + 1)
                   THEN (IF child = "running" THEN "running" ELSE "exited")
                   ELSE atExpiry
    /\ UNCHANGED <<otherVars, pc, req, now, procVars, spawnVars, childStdin, ioVars,
                   ptyVars, out, err, result, openFds, killSent>>

(* ------------------------------ command() ----------------------------- *)

\* lines 199-270, the spawn succeeding
CallSpawned ==
    /\ pc = "call"
    /\ openFds' = IF ioopt(req) = "pty" THEN PtyFds
                  ELSE IF ioopt(req) = "pipe" THEN PipeFds ELSE {}
    /\ child' = "running"
    /\ childEnv' = Some(PopenEnv(merged_env(req)))
    /\ childArgv' = Some(cmds(req))
    /\ childStdio' = Some(ChildStdio(PopenStdio(req)))
    /\ now' = clock
    /\ pc' = IF tty(req) THEN "pty_poll" ELSE "communicate"
    /\ UNCHANGED <<otherVars, req, clock, exitStatus, returncode, childStdin, ioVars,
                   ptyVars, out, err, result, killSent, atExpiry>>

\* the failure to start the child handed on as an exit code, as a shell does
CallSpawnFailedAsStatus ==
    /\ pc = "call"
    /\ openFds' = IF ioopt(req) = "pty" THEN PtyFds ELSE {}
    /\ returncode' = Some(1)
    /\ out' = Some(Str(<<>>))
    /\ err' = Some(Str(<<>>))
    /\ pc' = "classify"
    /\ UNCHANGED <<otherVars, req, clock, now, child, exitStatus, spawnVars,
                   childStdin, ioVars, ptyVars, result, killSent, atExpiry>>

\* lines 199-270, Popen raising: no child, the pipes of Popen are closed
CallSpawnFailed ==
    /\ pc = "call"
    /\ openFds' = IF ioopt(req) = "pty" THEN PtyFds ELSE {}
    /\ result' = [kind |-> "SpawnError", value |-> None]
    /\ pc' = "done"
    /\ UNCHANGED <<otherVars, req, clock, now, procVars, spawnVars, childStdin, ioVars,
                   ptyVars, out, err, killSent, atExpiry>>

\* subproc.poll(): collects the status of a child that has exited
Poll ==
    IF child = "zombie"
    THEN /\ child' = "reaped"
         /\ returncode' = Some(exitStatus)
    ELSE UNCHANGED <<otherVars, child, returncode>>

\* line 281
PtyPoll ==
    /\ pc = "pty_poll"
    /\ Poll
    /\ pc' = IF child = "running" THEN "pty_select" ELSE "pty_join"
    /\ UNCHANGED <<otherVars, req, clock, now, exitStatus, spawnVars, childStdin,
                   ioVars, ptyVars, out, err, result, openFds, killSent,
                   atExpiry>>

\* os.read() of a master that select() reported readable
ReadReady(chunks, buf) ==
    IF buf # <<>> THEN Append(chunks, OsRead(buf)) ELSE chunks

\* lines 282-288: select() on the two masters, then one read of each
\* master that is readable
PtySelectRead ==
    /\ pc = "pty_select"
    /\ out_chunks' = ReadReady(out_chunks, pending.out)
    /\ err_chunks' = ReadReady(err_chunks, pending.err)
    /\ pending' = [s \in Streams |-> AfterRead(pending[s])]
    /\ pc' = "pty_deadline"
    /\ UNCHANGED <<otherVars, req, clock, now, procVars, spawnVars, childStdin, wrote,
                   out, err, result, openFds, killSent, atExpiry>>

\* the loop without its deadline check
PtyDeadlineSkipped ==
    /\ pc = "pty_deadline"
    /\ pc' = "pty_poll"
    /\ UNCHANGED <<otherVars, req, clock, now, procVars, spawnVars, childStdin, ioVars,
                   ptyVars, out, err, result, openFds, killSent, atExpiry>>

\* line 289
PtyDeadline ==
    /\ pc = "pty_deadline"
    /\ pc' = IF Expired(clock) THEN "kill" ELSE "pty_poll"
    /\ UNCHANGED <<otherVars, req, clock, now, procVars, spawnVars, childStdin, ioVars,
                   ptyVars, out, err, result, openFds, killSent, atExpiry>>

\* subproc.kill(), lines 290 and 308: polls, and signals a child that has
\* no status yet; SIGKILL ends the child
Kill ==
    /\ pc = "kill"
    /\ killSent' = TRUE
    /\ IF child = "running"
       THEN /\ child' = "zombie"
            /\ exitStatus' = 0 - SIGKILL
            /\ UNCHANGED returncode
       ELSE /\ Poll
            /\ UNCHANGED exitStatus
    /\ pc' = "wait"
    /\ UNCHANGED <<otherVars, req, clock, now, spawnVars, childStdin, ioVars, ptyVars,
                   out, err, result, openFds, atExpiry>>

\* the raise without the wait before it
RaiseWithoutWait ==
    /\ pc = "wait"
    /\ result' = [kind |-> "TimeoutExpired",
                  value |-> [cmd |-> cmds(req), timeout |-> Val(req.timeout)]]
    /\ pc' = "done"
    /\ UNCHANGED <<otherVars, req, clock, now, procVars, spawnVars, childStdin,
                   ioVars, ptyVars, out, err, openFds, killSent, atExpiry>>

\* subproc.wait() and the raise, lines 291-292 and 309-310
WaitAndRaise ==
    /\ pc = "wait"
    /\ child \in {"zombie", "reaped"}
    /\ child' = "reaped"
    /\ returncode' = Some(exitStatus)
    /\ result' = [kind |-> "TimeoutExpired",
                  value |-> [cmd |-> cmds(req), timeout |-> Val(req.timeout)]]
    /\ pc' = "done"
    /\ UNCHANGED <<otherVars, req, clock, now, exitStatus, spawnVars, childStdin,
                   ioVars, ptyVars, out, err, openFds, killSent, atExpiry>>

\* the errors policy is strict unless the caller names another one
Strict == req.errors \in {None, Some("strict")}

\* lines 294-302
PtyJoin ==
    /\ pc = "pty_join"
    /\ LET out_bytes == Join(out_chunks)
           err_bytes == Join(err_chunks)
       IN  IF text_mode(req)
           THEN IF Strict /\ ~(Decodable(out_bytes) /\ Decodable(err_bytes))
                THEN /\ result' = [kind |-> "UnicodeDecodeError", value |-> None]
                     /\ pc' = "done"
                     /\ UNCHANGED <<otherVars, out, err>>
                ELSE /\ out' = Some(Decode(out_bytes))
                     /\ err' = Some(Decode(err_bytes))
                     /\ pc' = "classify"
                     /\ UNCHANGED result
           ELSE /\ out' = Some(BytesVal(out_bytes))
                /\ err' = Some(BytesVal(err_bytes))
                /\ pc' = "classify"
                /\ UNCHANGED result
    /\ UNCHANGED <<otherVars, req, clock, now, procVars, spawnVars, childStdin, ioVars,
                   ptyVars, openFds, killSent, atExpiry>>

\* what communicate() returns for one stream: None without a pipe
Communicated(bs) ==
    IF ioopt(req) # "pipe" THEN None
    ELSE IF text_mode(req) THEN Some(Decode(bs)) ELSE Some(BytesVal(bs))

\* lines 305-315, the child exiting within the timeout
CommunicateReturn ==
    /\ pc = "communicate"
    /\ child = "zombie"
    /\ Poll
    /\ childStdin' = IF ioopt(req) = "pipe" THEN req.input ELSE None
    /\ pending' = [s \in Streams |-> <<>>]
    /\ openFds' = openFds \ PipeFds
    /\ IF /\ ioopt(req) = "pipe" /\ text_mode(req) /\ Strict
          /\ ~(Decodable(pending.out) /\ Decodable(pending.err))
       THEN /\ result' = [kind |-> "UnicodeDecodeError", value |-> None]
            /\ pc' = "done"
            /\ UNCHANGED <<otherVars, out, err>>
       ELSE /\ out' = Some(NoneToEmpty(Communicated(pending.out)))
            /\ err' = Some(NoneToEmpty(Communicated(pending.err)))
            /\ pc' = "classify"
            /\ UNCHANGED result
    /\ UNCHANGED <<otherVars, req, clock, now, exitStatus, spawnVars, wrote, ptyVars,
                   killSent, atExpiry>>

\* communicate() that honours the timeout only when it drives pipes
CommunicateTimeoutPipesOnly ==
    /\ pc = "communicate"
    /\ child = "running"
    /\ Expired(clock)
    /\ ioopt(req) = "pipe"
    /\ childStdin' = req.input
    /\ pc' = "kill"
    /\ UNCHANGED <<otherVars, req, clock, now, procVars, spawnVars, ioVars, ptyVars,
                   out, err, result, openFds, killSent, atExpiry>>

\* lines 306-307, communicate() raising TimeoutExpired
CommunicateTimeout ==
    /\ pc = "communicate"
    /\ child = "running"
    /\ Expired(clock)
    /\ childStdin' = IF ioopt(req) = "pipe" THEN req.input ELSE None
    /\ pc' = "kill"
    /\ UNCHANGED <<otherVars, req, clock, now, procVars, spawnVars, ioVars, ptyVars,
                   out, err, result, openFds, killSent, atExpiry>>

\* the classification that raises whenever check is set
ClassifyRaisesOnCheck ==
    /\ pc = "classify"
    /\ result' =
         IF req.check
         THEN [kind |-> "CalledProcessError",
               value |-> CalledProcessError(Val(returncode), Val(out),
                                            Val(err), cmds(req), opts(req))]
         ELSE [kind |-> "return",
               value |-> <<Val(returncode), Val(out), Val(err)>>]
    /\ pc' = "done"
    /\ UNCHANGED <<otherVars, req, clock, now, procVars, spawnVars, childStdin, ioVars,
                   ptyVars, out, err, openFds, killSent, atExpiry>>

\* lines 317-327
Classify ==
    /\ pc = "classify"
    /\ result' =
         IF req.check /\ Val(returncode) # 0
         THEN [kind |-> "CalledProcessError",
               value |-> CalledProcessError(Val(returncode), Val(out),
                                            Val(err), cmds(req), opts(req))]
         ELSE [kind |-> "return",
               value |-> <<Val(returncode), Val(out), Val(err)>>]
    /\ pc' = "done"
    /\ UNCHANGED <<otherVars, req, clock, now, procVars, spawnVars, childStdin, ioVars,
                   ptyVars, out, err, openFds, killSent, atExpiry>>

Next ==
    \/ CallSpawned
    \/ CallSpawnFailed
    \/ PtyPoll
    \/ PtySelectRead
    \/ PtyDeadline
    \/ Kill
    \/ WaitAndRaise
    \/ PtyJoin
    \/ CommunicateReturn
    \/ CommunicateTimeout
    \/ Classify
    \/ \E s \in Streams, b \in Byte : ChildWrite(s, b)
    \/ \E c \in ExitCodes : ChildExit(c)
    \/ Tick

Spec == Init /\ [][Next]_vars

\* the steps of the caller's thread: it is scheduled, so a step that stays
\* possible is eventually taken; nothing makes the child exit or the clock
\* of the model run on
CallerNext ==
    \/ CallSpawned
    \/ CallSpawnFailed
    \/ PtyPoll
    \/ PtySelectRead
    \/ PtyDeadline
    \/ Kill
    \/ WaitAndRaise
    \/ PtyJoin
    \/ CommunicateReturn
    \/ CommunicateTimeout
    \/ Classify

\* the calls that set a timeout, in each mode of capture and tty
TimedRequests ==
    {q \in ControlRequests : ~IsNone(q.timeout) /\ ~q.check /\ IsNone(q.text)}

LiveInit == InitFor(TimedRequests) /\ LaunchIdle /\ ErrIdle /\ ShellIdle
            /\ ThreadsIdle /\ FrameIdle

LiveSpec == LiveInit /\ [][Next]_vars /\ WF_vars(CallerNext)

\* the calls with and without a timeout, in each mode of capture and tty
BlockingRequests ==
    {q \in ControlRequests : ~q.check /\ IsNone(q.text)}

BlockInit == InitFor(BlockingRequests) /\ LaunchIdle /\ ErrIdle /\ ShellIdle
             /\ ThreadsIdle /\ FrameIdle

\* the caller's steps are taken and time passes; the child is free to
\* run for ever
BlockSpec ==
    BlockInit /\ [][Next]_vars /\ WF_vars(CallerNext) /\ WF_vars(Tick)

(* --------------------------- start_process() -------------------------- *)

\* os.sysconf("SC_OPEN_MAX"): no descriptor of the process reaches it
SC_OPEN_MAX == 1024
\* max_fd when os.sysconf() raises ValueError
FallbackMaxFd == 65536

\* the numbers of S in ascending order
Ascending(S) ==
    [i \in 1..Cardinality(S) |->
        CHOOSE x \in S : Cardinality({y \in S : y <= x}) = i]

\* the descriptor os.listdir() itself uses while it lists: the lowest
\* number that is not open; it is closed again when the list is returned
ListFd(fds) ==
    CHOOSE n \in 0..Cardinality(fds) :
        n \notin fds /\ \A m \in 0..(n - 1) : m \in fds

\* lines 382-383: the names in the directory, as numbers
Listing(fds) == Ascending(fds \cup {ListFd(fds)})

\* the numbers of seq up to the first one that is not open
UntilError(seq, fds) ==
    {seq[i] : i \in {j \in 1..Len(seq) : \A k \in 1..j : seq[k] \in fds}}

\* lines 384-389: what closing every number of seq in turn does to the
\* open descriptors fds, a failing close being passed over
CloseEach(seq, fds, dir, dirs) ==
    [open |-> fds \ {seq[i] : i \in 1..Len(seq)},
     tried |-> dirs, from |-> dir, upto |-> 0,
     errors |-> \E i \in 1..Len(seq) : seq[i] \notin fds]

\* a failing close ends the closing of a listing
_close_fds_until_error(fds, pf) ==
    IF pf.proc \/ pf.dev
    THEN [open |-> fds \ UntilError(Listing(fds), fds),
          tried |-> IF pf.proc THEN <<"/proc/self/fd">>
                    ELSE <<"/proc/self/fd", "/dev/fd">>,
          from |-> IF pf.proc THEN "/proc/self/fd" ELSE "/dev/fd",
          upto |-> 0, errors |-> TRUE]
    ELSE LET max_fd == IF pf.sysconf THEN SC_OPEN_MAX ELSE FallbackMaxFd
         IN  [open |-> {fd \in fds : fd >= max_fd},
              tried |-> <<"/proc/self/fd", "/dev/fd">>,
              from |-> "range", upto |-> max_fd,
              errors |-> Cardinality(fds) < max_fd]

\* _close_fds() for the open descriptors fds on the platform pf: the
\* descriptors open afterwards and what was done.  The first directory
\* that can be listed gives the numbers to close; without one every number
\* below max_fd is closed
_close_fds(fds, pf) ==
    IF pf.proc
    THEN CloseEach(Listing(fds), fds, "/proc/self/fd", <<"/proc/self/fd">>)
    ELSE IF pf.dev
    THEN CloseEach(Listing(fds), fds, "/dev/fd",
                   <<"/proc/self/fd", "/dev/fd">>)
    ELSE LET max_fd == IF pf.sysconf THEN SC_OPEN_MAX ELSE FallbackMaxFd
         IN  [open |-> {fd \in fds : fd >= max_fd},
              tried |-> <<"/proc/self/fd", "/dev/fd">>,
              from |-> "range", upto |-> max_fd,
              errors |-> Cardinality(fds) < max_fd]

\* a call may start when no earlier child is left over
MayLaunch ==
    /\ lpc \in {"idle", "done"}
    /\ kid \in {"none", "reaped"}
    /\ launches < MaxLaunches

\* lines 431-432 and 448-449 in the parent: os.fork() gives a child, and
\* the parent goes on to wait for it
StartProcess(q) ==
    /\ MayLaunch
    /\ lreq' = q
    /\ launches' = launches + 1
    /\ kid' = "close_fds"
    /\ kidFds' = parentFds
    /\ kidArgv' = <<>>
    /\ kidEnv' = EmptyMap
    /\ kidStatus' = 0
    /\ lresult' = NoLaunchResult
    /\ interrupts' = 0
    /\ waitCalls' = 0
    /\ logged' = {}
    /\ fileAtCall' = file
    /\ lpc' = "waitpid"
    /\ closeLog' = NoCloseLog
    /\ UNCHANGED <<cmdVars, errVars, shellVars, threadVars, frameVars,
                   platform, parentFds, file>>

\* lines 431-435: os.fork() fails, the error is logged and raised
ForkFails(q) ==
    /\ MayLaunch
    /\ lreq' = q
    /\ launches' = launches + 1
    /\ logged' = {"parent"}
    /\ lresult' = [kind |-> "OSError", from |-> "fork", errno |-> "EAGAIN"]
    /\ interrupts' = 0
    /\ waitCalls' = 0
    /\ fileAtCall' = file
    /\ lpc' = "done"
    /\ kid' = "none"
    /\ kidFds' = {}
    /\ kidArgv' = <<>>
    /\ kidEnv' = EmptyMap
    /\ kidStatus' = 0
    /\ closeLog' = NoCloseLog
    /\ UNCHANGED <<cmdVars, errVars, shellVars, threadVars, frameVars,
                   platform, parentFds, file>>

\* an error of the fallback, when os.sysconf() fails, leaves _close_fds()
\* and start_process() in the child
ChildCloseFdsUncaught ==
    /\ kid = "close_fds"
    /\ LET r == _close_fds(kidFds, platform)
       IN  IF r.from = "range" /\ ~platform.sysconf
           THEN /\ kid' = "escaped"
                /\ UNCHANGED <<kidFds, closeLog>>
           ELSE /\ kidFds' = r.open
                /\ closeLog' = [tried |-> r.tried, from |-> r.from,
                                upto |-> r.upto, errors |-> r.errors]
                /\ kid' = "exec"
    /\ UNCHANGED <<cmdVars, errVars, shellVars, threadVars, frameVars, lpc,
                   lreq, platform, parentFds, kidArgv, kidEnv, kidStatus,
                   lresult, interrupts, waitCalls, logged, file,
                   fileAtCall, launches>>

\* line 438, in the child
ChildCloseFds ==
    /\ kid = "close_fds"
    /\ LET r == _close_fds(kidFds, platform)
       IN  /\ kidFds' = r.open
           /\ closeLog' = [tried |-> r.tried, from |-> r.from,
                           upto |-> r.upto, errors |-> r.errors]
    /\ kid' = "exec"
    /\ UNCHANGED <<cmdVars, errVars, shellVars, threadVars, frameVars, lpc,
                   lreq, platform, parentFds, kidArgv, kidEnv, kidStatus,
                   lresult, interrupts, waitCalls, logged, file,
                   fileAtCall, launches>>

\* the exec with the target before cmd's own name
ChildExecTargetFirst ==
    /\ kid = "exec"
    /\ kidArgv' = <<lreq.target, lreq.cmd>> \o lreq.args
    /\ kidEnv' = DictOverlay(os_environ, lreq.env)
    /\ kid' = "image"
    /\ UNCHANGED <<cmdVars, errVars, shellVars, threadVars, frameVars, lpc, lreq, platform, parentFds, closeLog,
                   kidFds, kidStatus, lresult, interrupts, waitCalls,
                   logged, file, fileAtCall, launches>>

\* lines 439-443, in the child: os.execlpe(cmd, cmd, target, *args, env)
\* replaces the child
ChildExec ==
    /\ kid = "exec"
    /\ kidArgv' = <<lreq.cmd, lreq.target>> \o lreq.args
    /\ kidEnv' = DictOverlay(os_environ, lreq.env)
    /\ kid' = "image"
    /\ UNCHANGED <<cmdVars, errVars, shellVars, threadVars, frameVars, lpc, lreq, platform, parentFds, closeLog,
                   kidFds, kidStatus, lresult, interrupts, waitCalls,
                   logged, file, fileAtCall, launches>>

\* the failing exec reported through the logger before the exit
ChildExecFailsLogging ==
    /\ kid = "exec"
    /\ logged' = logged \cup {"child"}
    /\ kidStatus' = 1
    /\ kid' = "exited"
    /\ UNCHANGED <<cmdVars, errVars, shellVars, threadVars, frameVars, lpc, lreq, platform, parentFds, closeLog,
                   kidFds, kidArgv, kidEnv, lresult, interrupts, waitCalls,
                   file, fileAtCall, launches>>

\* lines 442-447, in the child: os.execlpe() raises and the child leaves
\* with os._exit(1)
ChildExecFails ==
    /\ kid = "exec"
    /\ kidStatus' = 1
    /\ kid' = "exited"
    /\ UNCHANGED <<cmdVars, errVars, shellVars, threadVars, frameVars, lpc, lreq, platform, parentFds, closeLog,
                   kidFds, kidArgv, kidEnv, lresult, interrupts, waitCalls,
                   logged, file, fileAtCall, launches>>

\* what the target script appends to the file: its arguments, concatenated
TargetOutput(argv) == SubSeq(argv, 3, Len(argv))

\* the image runs the target, which appends to the file, and exits
ImageRun ==
    /\ kid = "image"
    /\ file' = file \o TargetOutput(kidArgv)
    /\ kidStatus' = 0
    /\ kid' = "exited"
    /\ UNCHANGED <<cmdVars, errVars, shellVars, threadVars, frameVars, lpc, lreq, platform, parentFds, closeLog,
                   kidFds, kidArgv, kidEnv, lresult, interrupts, waitCalls,
                   logged, fileAtCall, launches>>

\* the wait called with os.WNOHANG: it returns while the child still runs
WaitReturnsNoHang ==
    /\ lpc = "waitpid"
    /\ kid # "reaped"
    /\ kid' = IF kid = "exited" THEN "reaped" ELSE kid
    /\ waitCalls' = waitCalls + 1
    /\ lresult' = [kind |-> "returned", from |-> "none", errno |-> "none"]
    /\ lpc' = "done"
    /\ UNCHANGED <<cmdVars, errVars, shellVars, threadVars, frameVars, lreq, platform, parentFds, closeLog, kidFds,
                   kidArgv, kidEnv, kidStatus, interrupts, logged, file,
                   fileAtCall, launches>>

\* lines 366-367: os.waitpid(pid, 0) returns, the child has ended
WaitReturns ==
    /\ lpc = "waitpid"
    /\ kid = "exited"
    /\ kid' = "reaped"
    /\ waitCalls' = waitCalls + 1
    /\ lresult' = [kind |-> "returned", from |-> "none", errno |-> "none"]
    /\ lpc' = "done"
    /\ UNCHANGED <<cmdVars, errVars, shellVars, threadVars, frameVars, lreq, platform, parentFds, closeLog, kidFds,
                   kidArgv, kidEnv, kidStatus, interrupts, logged, file,
                   fileAtCall, launches>>

\* EINTR raised to the caller like any other error
WaitInterruptedRaises ==
    /\ lpc = "waitpid"
    /\ kid # "reaped"
    /\ interrupts < MaxEintr
    /\ interrupts' = interrupts + 1
    /\ waitCalls' = waitCalls + 1
    /\ lresult' = [kind |-> "OSError", from |-> "waitpid", errno |-> "EINTR"]
    /\ lpc' = "done"
    /\ UNCHANGED <<cmdVars, errVars, shellVars, threadVars, frameVars, lreq, platform, parentFds, closeLog, kid, kidFds,
                   kidArgv, kidEnv, kidStatus, logged, file, fileAtCall,
                   launches>>

\* lines 368-376 with e.errno == errno.EINTR: the loop goes round again
WaitInterrupted ==
    /\ lpc = "waitpid"
    /\ kid # "reaped"
    /\ interrupts < MaxEintr
    /\ interrupts' = interrupts + 1
    /\ waitCalls' = waitCalls + 1
    /\ UNCHANGED <<cmdVars, errVars, shellVars, threadVars, frameVars, lpc, lreq, platform, parentFds, closeLog, kid,
                   kidFds, kidArgv, kidEnv, kidStatus, lresult, logged,
                   file, fileAtCall, launches>>

\* lines 368-376 with another errno: the error is raised
WaitFails ==
    /\ lpc = "waitpid"
    /\ kid # "reaped"
    /\ waitCalls' = waitCalls + 1
    /\ lresult' = [kind |-> "OSError", from |-> "waitpid", errno |-> "ECHILD"]
    /\ lpc' = "done"
    /\ UNCHANGED <<cmdVars, errVars, shellVars, threadVars, frameVars, lreq, platform, parentFds, closeLog, kid, kidFds,
                   kidArgv, kidEnv, kidStatus, interrupts, logged, file,
                   fileAtCall, launches>>

LaunchNext ==
    \/ \E q \in LaunchRequests : StartProcess(q)
    \/ \E q \in LaunchRequests : ForkFails(q)
    \/ ChildCloseFds
    \/ ChildExec
    \/ ChildExecFails
    \/ ImageRun
    \/ WaitReturns
    \/ WaitInterrupted
    \/ WaitFails

\* command() is not called
NoCall ==
    [cmd |-> StrCmd("python"), arguments |-> <<"-c", "0">>, cwd |-> None,
     encoding |-> None, env |-> None, errors |-> None, text |-> None,
     universal_newlines |-> None, input |-> None, check |-> FALSE,
     inherit_env |-> None, timeout |-> None, capture |-> None, tty |-> None]

CommandIdle == InitFor({NoCall})

LaunchInit ==
    /\ CommandIdle
    /\ ErrIdle
    /\ ShellIdle
    /\ ThreadsIdle
    /\ FrameIdle
    /\ \E fds \in ParentFdSets, pf \in Platforms : LaunchStart(fds, pf)

LaunchSpec == LaunchInit /\ [][LaunchNext]_vars

(* ------------------------ CalledProcessError() ------------------------ *)

\* the value given as out or err
TextValue(k, d) == IF k = "str" THEN Str(d) ELSE BytesVal(d)

\* lines 56-73
Construct ==
    /\ ex = None
    /\ ex' = Some(CalledProcessError(exIn.returncode,
                                     TextValue(exIn.kind, exIn.out),
                                     TextValue(exIn.kind, exIn.err),
                                     exIn.cmd, exIn.options))
    /\ UNCHANGED <<cmdVars, launchVars, shellVars, threadVars, frameVars,
                   exIn>>

ErrNext == Construct

ErrInit ==
    /\ CommandIdle
    /\ LaunchIdle
    /\ ShellIdle
    /\ ThreadsIdle
    /\ FrameIdle
    /\ exIn \in ErrInputs
    /\ ex = None

ErrSpec == ErrInit /\ [][ErrNext]_vars

(* ------------------- the pty loop with timed waits -------------------- *)

\* the timeout of select() at line 282, 0.01 s: the unit of the clock here
PollInterval == 1

\* the calls in pty mode with a timeout of no or of one poll interval
PollRequests ==
    {[q EXCEPT !.timeout = Some(t)] :
        q \in {r \in ControlRequests : r.tty = Some(TRUE) /\ IsNone(r.text)
                                        /\ IsNone(r.capture)
                                        /\ IsNone(r.timeout)},
        t \in {0, PollInterval}}

\* a select() that may wait for twice the time it was given
PtySelectWaitTwice(d) ==
    /\ pc = "pty_select"
    /\ clock + 2 * d <= MaxTime
    /\ clock' = clock + 2 * d
    /\ atExpiry' = IF ~Expired(clock) /\ Expired(clock + 2 * d)
                   THEN (IF child = "running" THEN "running" ELSE "exited")
                   ELSE atExpiry
    /\ out_chunks' = ReadReady(out_chunks, pending.out)
    /\ err_chunks' = ReadReady(err_chunks, pending.err)
    /\ pending' = [s \in Streams |-> AfterRead(pending[s])]
    /\ pc' = "pty_deadline"
    /\ UNCHANGED <<otherVars, req, now, procVars, spawnVars, childStdin,
                   wrote, out, err, result, openFds, killSent>>

\* lines 282-288 with the time they take: select() returns after d, at
\* most its timeout, and each readable master is read once
PtySelectWait(d) ==
    /\ pc = "pty_select"
    /\ clock + d <= MaxTime
    /\ clock' = clock + d
    /\ atExpiry' = IF ~Expired(clock) /\ Expired(clock + d)
                   THEN (IF child = "running" THEN "running" ELSE "exited")
                   ELSE atExpiry
    /\ out_chunks' = ReadReady(out_chunks, pending.out)
    /\ err_chunks' = ReadReady(err_chunks, pending.err)
    /\ pending' = [s \in Streams |-> AfterRead(pending[s])]
    /\ pc' = "pty_deadline"
    /\ UNCHANGED <<otherVars, req, now, procVars, spawnVars, childStdin,
                   wrote, out, err, result, openFds, killSent>>

\* the pty loop where time passes in select() alone
PollNext ==
    \/ CallSpawned
    \/ CallSpawnFailed
    \/ PtyPoll
    \/ \E d \in 0..PollInterval : PtySelectWait(d)
    \/ PtyDeadline
    \/ Kill
    \/ WaitAndRaise
    \/ PtyJoin
    \/ Classify
    \/ \E s \in Streams, b \in Byte : ChildWrite(s, b)
    \/ \E c \in ExitCodes : ChildExit(c)

PollInit == InitFor(PollRequests) /\ LaunchIdle /\ ErrIdle /\ ShellIdle
            /\ ThreadsIdle /\ FrameIdle

PollSpec == PollInit /\ [][PollNext]_vars

(* ---------------------------- shell_script() -------------------------- *)

\* the script handed over as an argument of sh -c, the input left alone
shell_script_as_argument(script, o) ==
    [cmd |-> StrCmd("sh"), arguments |-> <<"-c", script>>, cwd |-> o.cwd,
     encoding |-> o.encoding, env |-> o.env, errors |-> o.errors,
     text |-> o.text, universal_newlines |-> o.universal_newlines,
     input |-> o.input, check |-> o.check, inherit_env |-> o.inherit_env,
     timeout |-> o.timeout, capture |-> o.capture, tty |-> o.tty]

\* lines 358-359: options["input"] = script_str, then
\* command("sh", **options); the arguments of that call
shell_script(script, o) ==
    [cmd |-> StrCmd("sh"), arguments |-> <<>>, cwd |-> o.cwd,
     encoding |-> o.encoding, env |-> o.env, errors |-> o.errors,
     text |-> o.text, universal_newlines |-> o.universal_newlines,
     input |-> Some(script), check |-> o.check,
     inherit_env |-> o.inherit_env, timeout |-> o.timeout,
     capture |-> o.capture, tty |-> o.tty]

\* line 359: command() is entered
ShellCall ==
    /\ spc = "entry"
    /\ pc = "call"
    /\ req' = shell_script(script_str, options)
    /\ spc' = "called"
    /\ UNCHANGED <<launchVars, errVars, threadVars, frameVars, script_str, options, sresult, pc,
                   clock, now, procVars, spawnVars, childStdin, ioVars,
                   ptyVars, out, err, result, openFds, killSent, atExpiry>>

\* line 359: what command() returned or raised is handed on
ShellReturn ==
    /\ spc = "called"
    /\ pc = "done"
    /\ sresult' = result
    /\ spc' = "done"
    /\ UNCHANGED <<cmdVars, launchVars, errVars, threadVars, frameVars,
                   script_str, options>>

\* the steps of command() and of its child, once it was entered
ShellCommandStep == spc = "called" /\ Next

ShellNext ==
    \/ ShellCall
    \/ ShellCommandStep
    \/ ShellReturn

ShellInit ==
    /\ CommandIdle
    /\ LaunchIdle
    /\ ErrIdle
    /\ ThreadsIdle
    /\ FrameIdle
    /\ spc = "entry"
    /\ script_str \in Scripts
    /\ options \in ShellOptions
    /\ sresult = NoResult

ShellSpec == ShellInit /\ [][ShellNext]_vars

(* -------------------- command() called from threads ------------------ *)

\* the smallest number of a set
Lowest(S) == CHOOSE x \in S : \A y \in S : x <= y

\* one descriptor number kept in the module and used by every call
SameFd == Lowest(FdNumbers)

\* lines 233-234 and 251 (the pipes of Popen): the system hands out the
\* lowest descriptor number that is not open
NewFd == Lowest({f \in FdNumbers : fdtab[f] = 0})

\* line 251: fork gives the child a pid no other process has
NewPid == Lowest({p \in Pids : procs[p].state = "free"})

\* the call of thread t leaves the other threads' locals alone
SetLocals(t, l) == calls' = [calls EXCEPT ![t] = l]

\* lines 230-270 in thread t: the descriptors are opened and the child is
\* started
ThreadSpawn(t) ==
    /\ calls[t].pc = "call"
    /\ LET p == NewPid
           f == NewFd
       IN  /\ procs' = [procs EXCEPT ![p] = [NoProc EXCEPT !.state = "running"]]
           /\ fdtab' = [fdtab EXCEPT ![f] = p]
           /\ SetLocals(t, [calls[t] EXCEPT
                  !.pid = p, !.fd = f,
                  !.pc = IF calls[t].tty THEN "pty_poll" ELSE "communicate"])
    /\ UNCHANGED <<cmdVars, launchVars, errVars, shellVars, frameVars>>

\* what the child p writes: each child has a byte of its own
ByteOf(p) == IF p = Lowest(Pids) THEN "a" ELSE InvalidByte

\* the child p writes a byte to its stdout
ThreadChildWrite(p) ==
    /\ procs[p].state = "running"
    /\ Len(procs[p].wrote) < MaxWrite
    /\ procs' = [procs EXCEPT ![p].wrote = Append(@, ByteOf(p)),
                              ![p].buf = Append(@, ByteOf(p))]
    /\ UNCHANGED <<cmdVars, launchVars, errVars, shellVars, frameVars, calls,
                   fdtab>>

\* the child p exits
ThreadChildExit(p, c) ==
    /\ procs[p].state = "running"
    /\ procs' = [procs EXCEPT ![p].state = "zombie", ![p].status = c]
    /\ UNCHANGED <<cmdVars, launchVars, errVars, shellVars, frameVars, calls,
                   fdtab>>

\* the timeout of thread t's call elapses
ThreadExpire(t) ==
    /\ calls[t].timed
    /\ ~calls[t].expired
    /\ calls[t].pc \notin {"call", "done"}
    /\ SetLocals(t, [calls[t] EXCEPT !.expired = TRUE])
    /\ UNCHANGED <<cmdVars, launchVars, errVars, shellVars, frameVars, procs,
                   fdtab>>

\* subproc.poll() and subproc.wait() of thread t: the status of the child
\* whose pid the call holds is collected
Reaped(t, p) ==
    [procs EXCEPT ![p].state = "reaped", ![p].reapedBy = @ \cup {t}]

\* line 281 in thread t
ThreadPtyPoll(t) ==
    /\ calls[t].pc = "pty_poll"
    /\ LET p == calls[t].pid
       IN  IF procs[p].state = "running"
           THEN /\ SetLocals(t, [calls[t] EXCEPT !.pc = "pty_select"])
                /\ UNCHANGED procs
           ELSE /\ SetLocals(t, [calls[t] EXCEPT
                       !.pc = "pty_join",
                       !.returncode = Some(procs[p].status)])
                /\ procs' = Reaped(t, p)
    /\ UNCHANGED <<cmdVars, launchVars, errVars, shellVars, frameVars, fdtab>>

\* lines 282-288 in thread t: what the call's descriptor gives is read
ThreadPtySelectRead(t) ==
    /\ calls[t].pc = "pty_select"
    /\ LET p == fdtab[calls[t].fd]
       IN  IF procs[p].buf # <<>>
           THEN /\ SetLocals(t, [calls[t] EXCEPT
                       !.pc = "pty_deadline",
                       !.chunks = Append(@, OsRead(procs[p].buf))])
                /\ procs' = [procs EXCEPT ![p].buf = AfterRead(@),
                                          ![p].readBy = @ \cup {t}]
           ELSE /\ SetLocals(t, [calls[t] EXCEPT !.pc = "pty_deadline"])
                /\ UNCHANGED procs
    /\ UNCHANGED <<cmdVars, launchVars, errVars, shellVars, frameVars, fdtab>>

\* line 289 in thread t
ThreadPtyDeadline(t) ==
    /\ calls[t].pc = "pty_deadline"
    /\ SetLocals(t, [calls[t] EXCEPT
           !.pc = IF calls[t].expired THEN "kill" ELSE "pty_poll"])
    /\ UNCHANGED <<cmdVars, launchVars, errVars, shellVars, frameVars, procs,
                   fdtab>>

\* lines 306-307 in thread t: communicate() raises TimeoutExpired
ThreadCommunicateTimeout(t) ==
    /\ calls[t].pc = "communicate"
    /\ calls[t].expired
    /\ procs[calls[t].pid].state = "running"
    /\ SetLocals(t, [calls[t] EXCEPT !.pc = "kill"])
    /\ UNCHANGED <<cmdVars, launchVars, errVars, shellVars, frameVars, procs,
                   fdtab>>

\* lines 290 and 308 in thread t: subproc.kill()
ThreadKill(t) ==
    /\ calls[t].pc = "kill"
    /\ LET p == calls[t].pid
       IN  procs' = IF procs[p].state = "running"
                    THEN [procs EXCEPT ![p].state = "zombie",
                                       ![p].status = 0 - SIGKILL,
                                       ![p].killedBy = @ \cup {t}]
                    ELSE procs
    /\ SetLocals(t, [calls[t] EXCEPT !.pc = "wait"])
    /\ UNCHANGED <<cmdVars, launchVars, errVars, shellVars, frameVars, fdtab>>

\* lines 291-292 and 309-310 in thread t: subproc.wait(), then the raise
ThreadWaitAndRaise(t) ==
    /\ calls[t].pc = "wait"
    /\ LET p == calls[t].pid
       IN  /\ procs[p].state \in {"zombie", "reaped"}
           /\ procs' = Reaped(t, p)
           /\ SetLocals(t, [calls[t] EXCEPT
                  !.pc = "done",
                  !.returncode = Some(procs[p].status),
                  !.result = [kind |-> "TimeoutExpired", value |-> None]])
    /\ UNCHANGED <<cmdVars, launchVars, errVars, shellVars, frameVars, fdtab>>

\* lines 294-327 in thread t: the chunks are joined and returned
ThreadPtyJoin(t) ==
    /\ calls[t].pc = "pty_join"
    /\ SetLocals(t, [calls[t] EXCEPT
           !.pc = "done",
           !.result = [kind |-> "return",
                       value |-> <<Val(calls[t].returncode),
                                   Join(calls[t].chunks)>>]])
    /\ UNCHANGED <<cmdVars, launchVars, errVars, shellVars, frameVars, procs,
                   fdtab>>

\* lines 305-327 in thread t: communicate() reads the call's pipe to its
\* end, closes it and collects the child
ThreadCommunicateReturn(t) ==
    /\ calls[t].pc = "communicate"
    /\ LET p == calls[t].pid
           w == fdtab[calls[t].fd]
       IN  /\ procs[p].state = "zombie"
           /\ procs' = [Reaped(t, p) EXCEPT
                           ![w].buf = <<>>,
                           ![w].readBy = IF procs[w].buf # <<>>
                                         THEN @ \cup {t} ELSE @]
           /\ fdtab' = [fdtab EXCEPT ![calls[t].fd] = 0]
           /\ SetLocals(t, [calls[t] EXCEPT
                  !.pc = "done",
                  !.returncode = Some(procs[p].status),
                  !.result = [kind |-> "return",
                              value |-> <<procs[p].status, procs[w].buf>>]])
    /\ UNCHANGED <<cmdVars, launchVars, errVars, shellVars, frameVars>>

ThreadsNext ==
    \/ \E t \in Threads : ThreadSpawn(t)
    \/ \E p \in Pids : ThreadChildWrite(p)
    \/ \E p \in Pids, c \in ExitCodes : ThreadChildExit(p, c)
    \/ \E t \in Threads : ThreadExpire(t)
    \/ \E t \in Threads : ThreadPtyPoll(t)
    \/ \E t \in Threads : ThreadPtySelectRead(t)
    \/ \E t \in Threads : ThreadPtyDeadline(t)
    \/ \E t \in Threads : ThreadCommunicateTimeout(t)
    \/ \E t \in Threads : ThreadKill(t)
    \/ \E t \in Threads : ThreadWaitAndRaise(t)
    \/ \E t \in Threads : ThreadPtyJoin(t)
    \/ \E t \in Threads : ThreadCommunicateReturn(t)

ThreadsInit ==
    /\ CommandIdle
    /\ LaunchIdle
    /\ ErrIdle
    /\ ShellIdle
    /\ ThreadsStart(ThreadRequests)
    /\ FrameIdle

ThreadsSpec == ThreadsInit /\ [][ThreadsNext]_vars

(* ----------------- the mappings in the caller's memory ---------------- *)

\* what a step on the mappings leaves alone
notFrameVars == <<cmdVars, launchVars, errVars, shellVars, threadVars>>

\* the merge done in place: os.environ.update(env or {})
FrameMergeInPlace ==
    /\ fpc = "call"
    /\ freq.fn = "command"
    /\ IF inherit_env(freq)
       THEN /\ heap' = [heap EXCEPT !["os.environ"] =
                           Some(DictOverlay(Val(@), EnvOrEmpty(heap["env"])))]
            /\ merged_ref' = "os.environ"
       ELSE /\ merged_ref' = IF IsNone(freq.env) THEN "None" ELSE "env"
            /\ UNCHANGED heap
    /\ fpc' = "popen"
    /\ UNCHANGED <<notFrameVars, freq, fchild, foutcome>>

\* lines 215-222: dict(os.environ, **(env or {})) is a new mapping; with
\* inherit_env false merged_env is env itself
FrameMerge ==
    /\ fpc = "call"
    /\ freq.fn = "command"
    /\ IF inherit_env(freq)
       THEN /\ heap' = [heap EXCEPT !["fresh"] =
                           Some(DictOverlay(Val(heap["os.environ"]),
                                            EnvOrEmpty(heap["env"])))]
            /\ merged_ref' = "fresh"
       ELSE /\ merged_ref' = IF IsNone(freq.env) THEN "None" ELSE "env"
            /\ UNCHANGED heap
    /\ fpc' = "popen"
    /\ UNCHANGED <<notFrameVars, freq, fchild, foutcome>>

\* the mapping merged_env refers to, None for None
Deref(ref) == IF ref = "None" THEN None ELSE heap[ref]

\* lines 251-270: Popen(env=merged_env) reads the mapping
FramePopen ==
    /\ fpc = "popen"
    /\ fchild' = [state |-> "running",
                  env |-> Some(PopenEnv(Deref(merged_ref))),
                  heap |-> None]
    /\ fpc' = "run"
    /\ UNCHANGED <<notFrameVars, freq, heap, merged_ref, foutcome>>

\* lines 251-270: Popen raises
FramePopenFails ==
    /\ fpc = "popen"
    /\ foutcome' = [kind |-> "SpawnError", env_ref |-> "None"]
    /\ fpc' = "done"
    /\ UNCHANGED <<notFrameVars, freq, heap, merged_ref, fchild>>

FrameOutcomes == {"return", "CalledProcessError", "TimeoutExpired"}

\* lines 275-327: the call ends; the options of CalledProcessError refer
\* to the caller's env
FrameOutcome(k) ==
    /\ fpc = "run"
    /\ foutcome' = [kind |-> k,
                    env_ref |-> IF k = "CalledProcessError"
                                   /\ ~IsNone(freq.env)
                                THEN "env" ELSE "None"]
    /\ fpc' = "done"
    /\ UNCHANGED <<notFrameVars, freq, heap, merged_ref, fchild>>

\* lines 431-432: os.fork(); the child has a copy of the caller's memory
FrameFork ==
    /\ fpc = "call"
    /\ freq.fn = "start_process"
    /\ fchild' = [state |-> "forked", env |-> None, heap |-> Some(heap)]
    /\ fpc' = "forked"
    /\ UNCHANGED <<notFrameVars, freq, heap, merged_ref, foutcome>>

\* lines 437-443, in the child: dict(os.environ, **env) in the child's own
\* memory, then the exec
FrameChildExec ==
    /\ fchild.state = "forked"
    /\ LET h == Val(fchild.heap)
           m == DictOverlay(Val(h["os.environ"]), Val(h["env"]))
       IN  fchild' = [state |-> "image", env |-> Some(m),
                      heap |-> Some([h EXCEPT !["fresh"] = Some(m)])]
    /\ UNCHANGED <<notFrameVars, fpc, freq, heap, merged_ref, foutcome>>

\* lines 448-449, in the parent: _waitpid(pid) returns
FrameWaitpid ==
    /\ fpc = "forked"
    /\ fchild.state = "image"
    /\ foutcome' = [kind |-> "returned", env_ref |-> "None"]
    /\ fpc' = "done"
    /\ UNCHANGED <<notFrameVars, freq, heap, merged_ref, fchild>>

FrameNext ==
    \/ FrameMerge
    \/ FramePopen
    \/ FramePopenFails
    \/ \E k \in FrameOutcomes : FrameOutcome(k)
    \/ FrameFork
    \/ FrameChildExec
    \/ FrameWaitpid

FrameInit ==
    /\ CommandIdle
    /\ LaunchIdle
    /\ ErrIdle
    /\ ShellIdle
    /\ ThreadsIdle
    /\ \E q \in FrameRequests : FrameStart(q)

FrameSpec == FrameInit /\ [][FrameNext]_vars

(* ------------------------------ claims -------------------------------- *)

Finished == pc = "done"
Raised(k) == pc = "done" /\ result.kind = k

\* C1: when command() fails with TimeoutExpired, in every I/O mode, kill()
\* has been called on the child and the child has been waited for: the
\* caller never sees TimeoutExpired with the child running or a zombie.
C1_TimeoutKilledAndReaped ==
    result.kind = "TimeoutExpired" =>
        /\ killSent
        /\ child = "reaped"
        /\ returncode = Some(exitStatus)

\* a timeout in pty mode whose kill ended the child
C1_Witness ==
    /\ Raised("TimeoutExpired")
    /\ ioopt(req) = "pty"
    /\ exitStatus = 0 - SIGKILL

\* a call made through command_ex whose child was started
CheckedCall == Finished /\ req = command_ex(req) /\ child # "none"

\* C2 as stated: command_ex raises CalledProcessError iff the exit code of
\* the child is not 0, and a call whose child exits with 0 raises nothing
\* and returns (0, stdout, stderr).
C2_Original ==
    CheckedCall =>
        /\ result.kind = "CalledProcessError" <=> exitStatus # 0
        /\ exitStatus = 0 =>
              /\ result.kind = "return"
              /\ result.value = <<0, Val(out), Val(err)>>

\* C2 amended: command_ex raises CalledProcessError iff the call neither
\* timed out nor failed to decode the output and the exit code is not 0; a
\* call whose child exits with 0 never raises CalledProcessError and,
\* whenever it returns, returns (0, stdout, stderr).
C2_Amended ==
    CheckedCall =>
        /\ result.kind = "CalledProcessError" <=>
              /\ result.kind \notin {"TimeoutExpired", "UnicodeDecodeError"}
              /\ exitStatus # 0
        /\ exitStatus = 0 =>
              /\ result.kind # "CalledProcessError"
              /\ result.kind = "return" =>
                    result.value = <<0, Val(out), Val(err)>>
        /\ result.kind = "return" => exitStatus = 0

\* command_ex returning for a child that wrote output and exited with 0
C2_Witness ==
    /\ CheckedCall
    /\ result.kind = "return"
    /\ exitStatus = 0
    /\ wrote.out # <<>>
    /\ Val(out).data # <<>>

RECURSIVE Cooked(_)
Cooked(bs) == IF bs = <<>> THEN <<>> ELSE TtyOutput(Head(bs)) \o Cooked(Tail(bs))

\* C4: in pty mode the read loop ends only when the child has exited and
\* nothing is pending on either master, so what was read is everything the
\* child wrote to each stream, in order.
C4_PtyLoopReadsEverything ==
    (ioopt(req) = "pty" /\ pc = "pty_join") =>
        /\ child = "reaped"
        /\ pending.out = <<>> /\ pending.err = <<>>
        /\ Join(out_chunks) = Cooked(wrote.out)
        /\ Join(err_chunks) = Cooked(wrote.err)

\* C5: after command() has returned or raised, every descriptor the call
\* created (pty masters and slaves, pipe ends) is closed in the caller.
C5_NoDescriptorOutlivesCall ==
    Finished => openFds = {}

\* C6: TimeoutExpired is raised only with a timeout given and for a child
\* that was still running when the timeout elapsed.
C6_TimeoutOnlyBeforeExit ==
    result.kind = "TimeoutExpired" =>
        /\ ~IsNone(req.timeout)
        /\ atExpiry = "running"

Empty == Str(<<>>)

\* C7: with capture=False and no tty the returned stdout and stderr are
\* empty, and a CalledProcessError carries empty stdout, stderr, out and
\* err, whatever the child wrote.
C7_UncapturedIsEmpty ==
    (Finished /\ ioopt(req) = "inherit") =>
        /\ result.kind = "return" =>
              result.value[2] = Empty /\ result.value[3] = Empty
        /\ result.kind = "CalledProcessError" =>
              /\ result.value.stdout = Empty /\ result.value.stderr = Empty
              /\ result.value.out = <<>> /\ result.value.err = <<>>

\* an uncaptured, checked call failing for a child that wrote to both streams
C7_Witness ==
    /\ Raised("CalledProcessError")
    /\ ioopt(req) = "inherit"
    /\ wrote.out # <<>> /\ wrote.err # <<>>

Supplied == {k \in {"cwd", "env", "input"} : ~IsNone(req[k])}

\* C8: a CalledProcessError raised for check=True and a non-zero exit code
\* carries the exit code, the captured stdout and stderr, the resolved
\* argument vector, and options holding exactly the supplied ones of cwd,
\* env, input with the caller's values.
C8_ErrorCarriesContext ==
    result.kind = "CalledProcessError" =>
        /\ req.check /\ exitStatus # 0
        /\ result.value.returncode = exitStatus
        /\ result.value.stdout = Val(out)
        /\ result.value.stderr = Val(err)
        /\ result.value.cmd = Val(childArgv)
        /\ DOMAIN result.value.options = Supplied
        /\ \A k \in Supplied : result.value.options[k] = Val(req[k])

\* an error of a call that was given cwd, env and input, with captured output
C8_Witness ==
    /\ Raised("CalledProcessError")
    /\ Supplied = {"cwd", "env", "input"}
    /\ Val(out).data # <<>>

\* C9: with inherit_env true the child's environment is the caller's
\* process environment overlaid with env, env winning on common keys; with
\* inherit_env=False and an env map it is exactly that map.
C9_ChildEnvironment ==
    child # "none" =>
        /\ inherit_env(req) =>
              LET e == IF IsNone(req.env) THEN EmptyMap ELSE Val(req.env) IN
              /\ DOMAIN Val(childEnv) = DOMAIN os_environ \cup DOMAIN e
              /\ \A k \in DOMAIN e : Val(childEnv)[k] = e[k]
              /\ \A k \in DOMAIN os_environ \ DOMAIN e :
                    Val(childEnv)[k] = os_environ[k]
        /\ (~inherit_env(req) /\ ~IsNone(req.env)) =>
              /\ Val(childEnv) = Val(req.env)
              /\ \A k \in DOMAIN os_environ \ DOMAIN Val(req.env) :
                    k \notin DOMAIN Val(childEnv)

\* a child started with an inherited environment in which the caller's
\* PATH replaced the parent's
C9_Witness ==
    /\ child # "none"
    /\ inherit_env(req)
    /\ ~IsNone(req.env)
    /\ "PATH" \in DOMAIN Val(req.env)
    /\ Val(childEnv)["PATH"] # os_environ["PATH"]
    /\ Val(childEnv)["HOME"] = os_environ["HOME"]

\* C10: with inherit_env=False and no env the child is started with an
\* empty environment.
C10_NoEnvMeansEmpty ==
    (child # "none" /\ ~inherit_env(req) /\ IsNone(req.env)) =>
        Val(childEnv) = EmptyMap

AllStdio(x) == [k \in {"stdin", "stdout", "stderr"} |-> x]

\* C11: the I/O mode is one of pty, pipes, inherited, with precedence
\* pty > capture > neither: tty=True gives two pty pairs, one slave for
\* stdout and one for stderr, and forces capture even against
\* capture=False; otherwise capture (the default) gives three pipes;
\* otherwise the child inherits the caller's descriptors; pty implies
\* capture.
C11_IoModePrecedence ==
    /\ tty(req) => capture(req)
    /\ child # "none" =>
          /\ req.tty = Some(TRUE) =>
                /\ Val(childStdio) =
                      [stdin |-> "inherited", stdout |-> "out_slave_fd",
                       stderr |-> "err_slave_fd"]
                /\ PtyFds \subseteq openFds
                /\ openFds \cap PipeFds = {}
          /\ (req.tty # Some(TRUE) /\ req.capture # Some(FALSE)) =>
                /\ Val(childStdio) = AllStdio("PIPE")
                /\ openFds \cap PtyFds = {}
          /\ (req.tty # Some(TRUE) /\ req.capture = Some(FALSE)) =>
                /\ Val(childStdio) = AllStdio("inherited")
                /\ openFds = {}

\* a child started on ptys by a call with tty=True and capture=False
C11_Witness ==
    /\ child = "running"
    /\ req.tty = Some(TRUE)
    /\ req.capture = Some(FALSE)
    /\ Val(childStdio).stdout = "out_slave_fd"

\* C12: with cmd a single string the vector passed to the child is [cmd]
\* followed by the positional arguments in order; with cmd a sequence it
\* is that sequence unchanged, the positional arguments ignored; the same
\* vector is reported in CalledProcessError.cmd.
C12_ArgumentVector ==
    child # "none" =>
        /\ req.cmd.isStr =>
              /\ Len(Val(childArgv)) = 1 + Len(req.arguments)
              /\ Val(childArgv)[1] = req.cmd.seq[1]
              /\ \A i \in 1..Len(req.arguments) :
                    Val(childArgv)[i + 1] = req.arguments[i]
        /\ ~req.cmd.isStr => Val(childArgv) = req.cmd.seq
        /\ result.kind = "CalledProcessError" =>
              result.value.cmd = Val(childArgv)

\* an error of a call whose cmd was a sequence and whose positional
\* arguments were dropped
C12_Witness ==
    /\ Raised("CalledProcessError")
    /\ ~req.cmd.isStr
    /\ req.arguments # <<>>
    /\ result.value.cmd = <<"ls", "a">>

(* ------------------------- start_process() claims -------------------- *)

\* start_process() has returned to the parent without raising
Returned == lpc = "done" /\ lresult.kind = "returned"

\* C13: start_process returns in the parent only after the forked child has
\* terminated and been waited for: in no state has the call returned while
\* its child is still closing descriptors, about to exec, running as the
\* new image or ended but not yet collected, however many times the wait
\* was interrupted.
C13_ReturnsAfterChildEnded ==
    Returned => kid = "reaped"

C13_Witness == Returned /\ interrupts >= 1 /\ kid = "reaped"

\* C14: EINTR from os.waitpid() never reaches the caller and the wait is
\* called again after each one; any other error of the wait reaches the
\* caller from the very call that raised it.
C14_EintrRetriedOthersRaised ==
    /\ lresult.kind = "OSError" /\ lresult.from = "waitpid" =>
          /\ lresult.errno # "EINTR"
          /\ waitCalls = interrupts + 1
    /\ lpc = "waitpid" => waitCalls = interrupts
    /\ Returned => waitCalls = interrupts + 1

C14_Witness ==
    /\ lpc = "done"
    /\ lresult.kind = "OSError"
    /\ lresult.from = "waitpid"
    /\ interrupts = MaxEintr

\* os.execlpe() failed in the child: it ended without becoming an image
ExecFailed == kid \in {"exited", "reaped"} /\ kidArgv = <<>>

\* C15: when the exec fails in the child, the child ends at once with a
\* status other than 0 and without a call of the logger, and the parent's
\* call returns normally once it has collected the child: the only error
\* the parent can see is one of its own wait.
C15_ExecFailureExitsQuietly ==
    ExecFailed =>
        /\ kidStatus # 0
        /\ "child" \notin logged
        /\ "parent" \notin logged
        /\ kid = "reaped" => Returned
        /\ lresult.kind = "OSError" => lresult.from = "waitpid"

C15_Witness == ExecFailed /\ Returned /\ kidStatus = 1

\* C16: in the child, when it is about to exec and afterwards, exactly the
\* descriptors 0, 1, 2 inherited from the parent are open.
C16_OnlyStandardKept ==
    kid \in {"exec", "image"} => kidFds = parentFds \cap {0, 1, 2}

LineEnd == {"\n", "\r"}

\* the positions where a line terminator of s ends: "\r\n" is one terminator
TerminatorEnds(s) ==
    {i \in 1..Len(s) :
        \/ s[i] = "\n"
        \/ s[i] = "\r" /\ ~(i < Len(s) /\ s[i + 1] = "\n")}

\* where the terminator that ends at i starts
TerminatorStart(s, i) ==
    IF s[i] = "\n" /\ i > 1 /\ s[i - 1] = "\r" THEN i - 1 ELSE i

\* the end of the last terminator before position i, 0 if there is none
PreviousEnd(s, i) ==
    LET before == {j \in TerminatorEnds(s) : j < i}
    IN  IF before = {} THEN 0
        ELSE CHOOSE j \in before : \A k \in before : k <= j

\* the n-th smallest element of a set of numbers
Nth(S, n) == CHOOSE x \in S : Cardinality({y \in S : y <= x}) = n

\* the lines of s, by position: the text between consecutive terminators,
\* and the text after the last one when there is any
LinesOf(s) ==
    LET ends == TerminatorEnds(s)
        k == Cardinality(ends)
        last == PreviousEnd(s, Len(s) + 1)
        n == IF last < Len(s) THEN k + 1 ELSE k
    IN  [j \in 1..n |->
            IF j <= k
            THEN SubSeq(s, PreviousEnd(s, Nth(ends, j)) + 1,
                        TerminatorStart(s, Nth(ends, j)) - 1)
            ELSE SubSeq(s, last + 1, Len(s))]

\* C18: the constructed CalledProcessError has returncode, stdout, stderr,
\* cmd and options equal to what the constructor was given, out and err
\* equal to the lines of stdout and stderr, and args equal to the 5-tuple of
\* what the constructor was given.
C18_ErrorRoundTrip ==
    ~IsNone(ex) =>
        LET e == Val(ex)
            o == TextValue(exIn.kind, exIn.out)
            r == TextValue(exIn.kind, exIn.err)
        IN  /\ e.returncode = exIn.returncode
            /\ e.stdout = o
            /\ e.stderr = r
            /\ e.cmd = exIn.cmd
            /\ e.options = exIn.options
            /\ e.out = LinesOf(exIn.out)
            /\ e.err = LinesOf(exIn.err)
            /\ e.args = <<exIn.returncode, o, r, exIn.cmd, exIn.options>>

C18_Witness ==
    /\ ~IsNone(ex)
    /\ exIn.out = <<"a", "\n">>
    /\ exIn.err = <<"\r", "\n">>
    /\ Val(ex).out = <<(<<"a">>)>>
    /\ Val(ex).err = <<(<<>>)>>
    /\ exIn.returncode = 222

(* ------------------------ kinds of the output ------------------------ *)

\* the kind of value text_mode asks for
KindFor(q) == IF text_mode(q) THEN "str" ELSE "bytes"

\* C19: stdout and stderr of a result are never None and are str exactly
\* when text_mode is true and bytes exactly when it is false, whatever was
\* captured.
C19_KindFollowsTextMode ==
    /\ pc \in {"classify", "done"} /\ result.kind # "UnicodeDecodeError"
           /\ result.kind # "TimeoutExpired" /\ result.kind # "SpawnError" =>
          ~IsNone(out) /\ ~IsNone(err)
    /\ result.kind = "return" =>
          /\ result.value[2].kind = KindFor(req)
          /\ result.value[3].kind = KindFor(req)
    /\ result.kind = "CalledProcessError" =>
          /\ result.value.stdout.kind = KindFor(req)
          /\ result.value.stderr.kind = KindFor(req)

\* the child wrote a byte that the encoding cannot decode
WroteInvalid == ~(Decodable(wrote.out) /\ Decodable(wrote.err))

\* with pipes alone: in text mode an undecodable byte ends the call
\* with UnicodeDecodeError whatever check and the exit code are; without
\* text mode the bytes written are returned as they are.
C20_PipeModeDecodingError ==
    (Finished /\ ioopt(req) = "pipe" /\ result.kind # "TimeoutExpired") =>
        /\ (text_mode(req) /\ Strict /\ WroteInvalid) =>
              result.kind = "UnicodeDecodeError"
        /\ ~text_mode(req) =>
              /\ result.kind # "UnicodeDecodeError"
              /\ result.kind = "return" =>
                    /\ result.value[2] = BytesVal(wrote.out)
                    /\ result.value[3] = BytesVal(wrote.err)

\* C20: in text mode without an errors policy, a call whose child wrote an
\* undecodable byte to a captured stream ends with UnicodeDecodeError, with
\* pipes and with ptys, whatever check and the exit code are; without text
\* mode no call ends with UnicodeDecodeError.
C20_InvalidBytesRaise ==
    (Finished /\ ioopt(req) # "inherit" /\ result.kind # "TimeoutExpired") =>
        /\ (text_mode(req) /\ Strict /\ WroteInvalid) =>
              result.kind = "UnicodeDecodeError"
        /\ ~text_mode(req) => result.kind # "UnicodeDecodeError"

(* --------------------------- failure to spawn ------------------------- *)

\* C21: a call whose child could not be started ends at once with the
\* error of the spawn, also with check=True: it has no exit code, no out
\* and no err, nothing was read, killed or waited for; and a call that
\* ended with a result or with CalledProcessError had a child and has
\* collected its exit code.
C21_SpawnFailureRaisedAtOnce ==
    /\ result.kind = "SpawnError" =>
          /\ pc = "done"
          /\ child = "none"
          /\ IsNone(returncode) /\ IsNone(out) /\ IsNone(err)
          /\ IsNone(childArgv) /\ IsNone(childStdin)
          /\ out_chunks = <<>> /\ err_chunks = <<>>
          /\ ~killSent
    /\ (pc # "call" /\ child = "none") => Raised("SpawnError")
    /\ result.kind \in {"return", "CalledProcessError"} =>
          child = "reaped" /\ ~IsNone(returncode)

C21_Witness ==
    /\ Raised("SpawnError")
    /\ req.check
    /\ child = "none"
    /\ ioopt(req) = "pipe"

(* ------------------------------ shell_script -------------------------- *)

\* C22: shell_script(script, options) is command("sh", input=script,
\* options): the call of command() it makes has cmd "sh" and no arguments,
\* the script as input whatever input the options held, every other option
\* as given; the child is started as sh alone and, with pipes, is sent the
\* script; what command() returned or raised is what shell_script() hands
\* back.
C22_ShellScriptIsCommandSh ==
    /\ spc \in {"called", "done"} =>
          /\ req.cmd = StrCmd("sh")
          /\ req.arguments = <<>>
          /\ req.input = Some(script_str)
          /\ OptionsOf(req) = [options EXCEPT !.input = Some(script_str)]
          /\ child # "none" => Val(childArgv) = <<"sh">>
          /\ (pc \in {"classify", "done"} /\ ioopt(req) = "pipe"
                 /\ result.kind \notin {"TimeoutExpired", "SpawnError"}) =>
                childStdin = Some(script_str)
    /\ spc = "done" => sresult = result /\ Finished

C22_Witness ==
    /\ spc = "done"
    /\ options.input = Some("123")
    /\ options.check
    /\ sresult.kind = "CalledProcessError"
    /\ sresult.value.options["input"] = script_str
    /\ childStdin = Some(script_str)

(* ------------------------------- blocking ----------------------------- *)

\* C23: a call with a timeout always ends, whatever the child does; a call
\* without a timeout ends once the child has exited, and has ended with a
\* result or CalledProcessError only for a child that exited.
C23_BlocksUntilExitOrTimeout ==
    /\ (~IsNone(req.timeout)) ~> Finished
    /\ (IsNone(req.timeout) /\ child \in {"zombie", "reaped"}) ~> Finished
    /\ []((IsNone(req.timeout) /\ Finished /\ result.kind # "SpawnError") =>
             (child = "reaped" /\ exitStatus # 0 - SIGKILL /\ ~killSent))

\* a timeout ended the call in pty mode for a child that wrote output and
\* never exited by itself
C23_Witness ==
    /\ Raised("TimeoutExpired")
    /\ ioopt(req) = "pty"
    /\ atExpiry = "running"
    /\ exitStatus = 0 - SIGKILL
    /\ Len(wrote.out) + Len(wrote.err) = MaxWrite

(* --------------------------- the pty deadline ------------------------- *)

\* how long ago the timeout elapsed
Lateness == clock - now - Val(req.timeout)

\* C24: in pty mode, with waits of at most one poll interval, the loop
\* never starts a turn with the timeout elapsed; the kill is about to be
\* sent, and was sent, no later than one poll interval after the timeout;
\* the child is reaped after the kill and TimeoutExpired comes only after
\* that.
C24_DeadlineWithinOnePoll ==
    /\ pc \in {"pty_poll", "pty_select"} => ~Expired(clock)
    /\ pc \in {"kill", "wait"} \/ result.kind = "TimeoutExpired" =>
          /\ Expired(clock)
          /\ Lateness <= PollInterval
    /\ pc = "kill" => ~killSent /\ result = NoResult
    /\ pc = "wait" => killSent /\ result = NoResult
    /\ result.kind = "TimeoutExpired" =>
          killSent /\ child = "reaped" /\ returncode = Some(exitStatus)

\* TimeoutExpired for a child that ran until the kill
C24_Witness ==
    /\ Raised("TimeoutExpired")
    /\ ioopt(req) = "pty"
    /\ Val(req.timeout) = PollInterval
    /\ Lateness = PollInterval
    /\ exitStatus = 0 - SIGKILL
    /\ out_chunks # <<>>

(* ------------------------------- threads ------------------------------ *)

\* the threads whose call holds the pid p
Owner(p) == {t \in Threads : calls[t].pid = p}

IsPrefix(a, b) == Len(a) <= Len(b) /\ a = SubSeq(b, 1, Len(a))

\* C25: under every interleaving of the threads' calls, no two calls hold
\* the same child; a call's open descriptor reads its own child's output;
\* each child's output is read, and each child is killed and collected, by
\* the call that started it alone, and killed only after that call's timeout
\* elapsed; a call returns its own child's exit code and bytes its own
\* child wrote.
C25_CallsDoNotInterfere ==
    /\ \A t, u \in Threads :
          (t # u /\ calls[t].pid # 0) => calls[t].pid # calls[u].pid
    /\ \A t \in Threads :
          calls[t].pc \notin {"call", "done"} =>
              fdtab[calls[t].fd] = calls[t].pid
    /\ \A p \in Pids :
          /\ procs[p].readBy \subseteq Owner(p)
          /\ procs[p].killedBy \subseteq Owner(p)
          /\ procs[p].reapedBy \subseteq Owner(p)
          /\ \A t \in procs[p].killedBy : calls[t].timed /\ calls[t].expired
    /\ \A t \in Threads :
          LET r == calls[t].result
              p == calls[t].pid
          IN  /\ r.kind = "return" =>
                    /\ r.value[1] = procs[p].status
                    /\ IsPrefix(r.value[2], procs[p].wrote)
                    /\ ~calls[t].tty => r.value[2] = procs[p].wrote
              /\ r.kind = "TimeoutExpired" =>
                    /\ procs[p].state = "reaped"
                    /\ calls[t].returncode = Some(procs[p].status)

\* one call has killed its child after its timeout while the child of the
\* other call, in pty mode, runs on and has been read
C25_Witness ==
    \E t, u \in Threads :
        /\ t # u
        /\ calls[t].pc = "wait"
        /\ procs[calls[t].pid].killedBy = {t}
        /\ calls[u].pc = "pty_deadline"
        /\ calls[u].chunks # <<>>
        /\ procs[calls[u].pid].state = "running"
        /\ procs[calls[u].pid].readBy = {u}

(* ------------------------- the caller's mappings ---------------------- *)

\* os.environ and the caller's env hold what they held at the call
MappingsUnchanged ==
    /\ heap["os.environ"] = Some(freq.environ)
    /\ heap["env"] = freq.env

\* command() has built merged_env
Merged == freq.fn = "command" /\ fpc \in {"popen", "run", "done"}

\* C26 as stated: os.environ and the caller's env are unchanged, and
\* merged_env is a fresh mapping for every inherit_env and env.
C26_Original ==
    /\ MappingsUnchanged
    /\ Merged => merged_ref = "fresh"

\* C26 amended: os.environ and the caller's env are unchanged on every
\* outcome; with inherit_env true merged_env is a fresh mapping holding
\* os.environ overlaid with env; with inherit_env false it is the caller's
\* env itself, or None, and no mapping is created; the parent of
\* start_process creates no mapping, the merged one is the child's.
C26_Amended ==
    /\ MappingsUnchanged
    /\ (Merged /\ inherit_env(freq)) =>
          /\ merged_ref = "fresh"
          /\ heap["fresh"] =
                Some(DictOverlay(freq.environ, EnvOrEmpty(freq.env)))
    /\ (Merged /\ ~inherit_env(freq)) =>
          /\ merged_ref = (IF IsNone(freq.env) THEN "None" ELSE "env")
          /\ IsNone(heap["fresh"])
    /\ freq.fn = "start_process" =>
          /\ IsNone(heap["fresh"])
          /\ merged_ref = "None"
          /\ fchild.state = "image" =>
                fchild.env = Some(DictOverlay(freq.environ, Val(freq.env)))
    /\ foutcome.env_ref \in {"None", "env"}

\* CalledProcessError after a merge of an env that overrides a variable of
\* os.environ
C26_Witness ==
    /\ fpc = "done"
    /\ foutcome.kind = "CalledProcessError"
    /\ merged_ref = "fresh"
    /\ "abc" \in DOMAIN freq.environ
    /\ ~IsNone(freq.env)
    /\ "abc" \in DOMAIN Val(freq.env)
    /\ Val(heap["fresh"])["abc"] = "xyz"
    /\ Val(heap["os.environ"])["abc"] = "old"

(* --------------------------- input in pty mode ------------------------ *)

\* C27: in pty mode nothing is written to the child's stdin, which is the
\* caller's own stdin and no pipe or pty of the call, whatever input was
\* given; a CalledProcessError of such a call still has the given input in
\* its options.
C27_PtyInputNotWritten ==
    ioopt(req) = "pty" =>
        /\ IsNone(childStdin)
        /\ child # "none" =>
              /\ Val(childStdio).stdin = "inherited"
              /\ "stdin_pipe" \notin openFds
        /\ (result.kind = "CalledProcessError" /\ ~IsNone(req.input)) =>
              /\ "input" \in DOMAIN result.value.options
              /\ result.value.options["input"] = Val(req.input)

\* CalledProcessError in pty mode for a call that was given an input
C27_Witness ==
    /\ Raised("CalledProcessError")
    /\ ioopt(req) = "pty"
    /\ ~IsNone(req.input)
    /\ result.value.options["input"] = Val(req.input)
    /\ IsNone(childStdin)

(* ----------------------- the child of start_process ------------------- *)

\* C28: the forked child never leaves the child branch into the caller's
\* code: it is closing descriptors, about to exec, replaced by the image,
\* or ended; a child that ended without having become the image ended with
\* a status other than 0; and a call has returned only in the parent, after
\* the child was collected.
C28_ChildNeverReturns ==
    /\ kid \in {"none", "close_fds", "exec", "image", "exited", "reaped"}
    /\ (kid \in {"exited", "reaped"} /\ kidArgv = <<>>) => kidStatus # 0
    /\ kid = "image" => kidArgv # <<>>
    /\ lresult.kind = "returned" => kid = "reaped" /\ lpc = "done"

\* the exec failed after the fallback closed the descriptors without a
\* limit from os.sysconf()
C28_Witness ==
    /\ kid = "exited"
    /\ kidArgv = <<>>
    /\ kidStatus = 1
    /\ closeLog.from = "range"
    /\ ~platform.sysconf
    /\ lpc = "waitpid"

\* _close_fds() has run in the child of the current call
Closed == kid \in {"exec", "image", "exited", "reaped"}

\* C29: _close_fds() lists /proc/self/fd and, only if that cannot be
\* listed, /dev/fd, and closes the numbers of the first listing it got; it
\* closes the numbers from 0 up to the limit, 65536 without a limit, only
\* when neither could be listed; a close that fails stops nothing: no
\* descriptor below the limit is left open; and it always returns.
C29_CloseFdsPaths ==
    /\ kid = "close_fds" => closeLog = NoCloseLog
    /\ Closed =>
          /\ platform.proc =>
                /\ closeLog.tried = <<"/proc/self/fd">>
                /\ closeLog.from = "/proc/self/fd"
          /\ (~platform.proc /\ platform.dev) =>
                /\ closeLog.tried = <<"/proc/self/fd", "/dev/fd">>
                /\ closeLog.from = "/dev/fd"
          /\ (~platform.proc /\ ~platform.dev) =>
                /\ closeLog.tried = <<"/proc/self/fd", "/dev/fd">>
                /\ closeLog.from = "range"
                /\ closeLog.upto = (IF platform.sysconf THEN SC_OPEN_MAX
                                    ELSE 65536)
          /\ closeLog.from # "range" => closeLog.upto = 0
          /\ closeLog.errors
          /\ kidFds = {}

\* a listing of /dev/fd, /proc/self/fd being unusable, closed the five
\* descriptors of the parent although one close failed
C29_Witness ==
    /\ kid = "exec"
    /\ closeLog.from = "/dev/fd"
    /\ closeLog.errors
    /\ parentFds = {0, 1, 2, 3, 5}
    /\ kidFds = {}

====
